---- MODULE Spec2Model ----
(***************************************************************************)
(* Model of the Fabric message codec (types/message.js) and of the State   *)
(* engine (types/state.js).                                                *)
(*                                                                         *)
(* Buffers are sequences of bytes (0..255).  Hex strings are sequences of  *)
(* hex digits (0..15).  SHA-256 is modelled by an injective map into       *)
(* 32-byte sequences (collisions are out of scope): the digest of b is     *)
(* Len(b)+1 followed by b and zero padding, which is injective for inputs  *)
(* of at most 31 bytes and never equals the all-zero buffer.               *)
(***************************************************************************)
EXTENDS Integers, Sequences, FiniteSets, TLC

VARIABLES m, wire, op, outcome, verifierCalled, warnings

msgVars == <<m, wire, op, outcome, verifierCalled, warnings>>

\* the State engine: the object heap, the State instances (s and its fork f),
\* the last call, its result and the signals it emitted
VARIABLES heap, st, call, result, emitted

stateVars == <<heap, st, call, result, emitted>>

\* a call of Hash256.compute / Hash256.digest in progress; a Node and its
\* calls of start(); a CLI, its state and its last call
VARIABLES hp, node, cli

otherVars == <<hp, node, cli>>

vars == <<m, wire, op, outcome, verifierCalled, warnings,
          heap, st, call, result, emitted, hp, node, cli>>

-----------------------------------------------------------------------------
(* Bounds of the model *)

\* calls of Node.start() on one Node
MaxCalls == 2

\* timers of sleep(1) that are counted one by one; more count as this many
MaxTimers == 2

\* longest payload (in characters / bytes) given to the constructor or setter
MaxPayload == 2

\* commits made on one State instance
MaxClock == 2

-----------------------------------------------------------------------------
(* Constants imported from ../constants *)

HEADER_SIZE == 176

\* MAGIC_BYTES.toString(16), 'c0d3f33d': the number exceeds the checker's integers
MAGIC_BYTES_HEX == <<12, 0, 13, 3, 15, 3, 3, 13>>

VERSION_NUMBER == 1

GENERIC_MESSAGE_TYPE == 15103

\* GENERIC_LIST_TYPE: a stand-in, as the number exceeds the checker's
\* integers; no other code of the model has this value
GENERIC_LIST_TYPE == 2147483645

P2P_INSTRUCTION == 32

P2P_PING == 18

P2P_PONG == 19

\* TYPE_ETHEREUM_BLOCK, TYPE_ETHEREUM_BLOCK_NUMBER: parsed from the ids of
\* two Labels; stand-ins, which no type name or buffer of the model yields
TYPE_ETHEREUM_BLOCK == 2147483646

TYPE_ETHEREUM_BLOCK_NUMBER == 2147483647

-----------------------------------------------------------------------------
(* Buffers and hex strings *)

Min(a, b) == IF a < b THEN a ELSE b

Zeros(n) == [i \in 1..n |-> 0]

\* buf.slice(a, b): the bytes at offsets a .. b-1 that exist
Slice(buf, a, b) == SubSeq(buf, Min(a, Len(buf)) + 1, Min(b, Len(buf)))

RECURSIVE NumToHex(_)
\* Number.prototype.toString(16) as a sequence of hex digits
NumToHex(n) == IF n < 16 THEN <<n>> ELSE Append(NumToHex(n \div 16), n % 16)

\* functions/padDigits: left-pad with zeros up to `digits` characters
padDigits(s, digits) == IF Len(s) < digits THEN Zeros(digits - Len(s)) \o s ELSE s

\* buf.toString('hex')
BufToHex(buf) ==
  [i \in 1..(2 * Len(buf)) |->
     IF i % 2 = 1 THEN buf[(i + 1) \div 2] \div 16 ELSE buf[i \div 2] % 16]

\* the bytes a hex string decodes to
HexToBytes(s) == [i \in 1..(Len(s) \div 2) |-> 16 * s[2 * i - 1] + s[2 * i]]

\* buf.write(bytes) at offset 0: as many bytes as fit, the rest is kept
WriteInto(buf, bytes) ==
  [i \in 1..Len(buf) |-> IF i <= Len(bytes) THEN bytes[i] ELSE buf[i]]

\* buf.write(s, 'hex')
WriteHex(buf, s) == WriteInto(buf, HexToBytes(s))

\* a buffer with the bytes at offset off.. replaced by those of field
Splice(buf, off, field) ==
  [i \in 1..Len(buf) |->
     IF i > off /\ i <= off + Len(field) THEN field[i - off] ELSE buf[i]]

\* value.toString('utf8') followed by the UTF-8 encoding of the result:
\* a byte that is no valid UTF-8 (0xFF) becomes U+FFFD, encoded EF BF BD
RECURSIVE Utf8RoundTrip(_)
Utf8RoundTrip(b) ==
  IF b = <<>> THEN <<>>
  ELSE (IF Head(b) < 128 THEN <<Head(b)>> ELSE <<239, 191, 189>>)
         \o Utf8RoundTrip(Tail(b))

\* crypto.createHash('sha256').update(b).digest()
Sha256(b) == <<Len(b) + 1>> \o b \o Zeros(31 - Len(b))

-----------------------------------------------------------------------------
(* The signer capability (external): key pair k has public key            *)
(* signerPubkey(k); its verify accepts exactly its own signatures.        *)

\* one deterministic test key pair
Signers == {1}

signerPubkey(k) == <<k>> \o Zeros(31)

signerSign(k, hash) == <<k>> \o hash \o Zeros(31)

signerVerify(author, hash, signature) ==
  \E k \in Signers : author = signerPubkey(k) /\ signature = signerSign(k, hash)

-----------------------------------------------------------------------------
(* Message: the instance is a record of the fields of this.raw, the       *)
(* attached signer (0 is null), whether Object.freeze was applied, and    *)
(* whether the header fields are slices (views) of the decoder's input.   *)

\* the type registry (get types), restricted to the names the model uses;
\* 0 stands for undefined (the name is not in the registry)
types(name) ==
  CASE name = "GenericMessage" -> GENERIC_MESSAGE_TYPE
    [] name = "GenericList" -> GENERIC_LIST_TYPE
    [] name = "GenericQueue" -> GENERIC_LIST_TYPE
    [] name = "PeerInstruction" -> P2P_INSTRUCTION
    [] name = "Ping" -> P2P_PING
    [] name = "Pong" -> P2P_PONG
    [] name = "EthereumBlock" -> TYPE_ETHEREUM_BLOCK
    [] name = "EthereumBlockNumber" -> TYPE_ETHEREUM_BLOCK_NUMBER
    [] OTHER -> 0

\* the names of the registry
TypeNames ==
  {"GenericMessage", "GenericList", "GenericQueue", "PeerInstruction", "Ping", "Pong",
   "EthereumBlock", "EthereumBlockNumber"}

\* this.raw as the constructor allocates it, magic and version written
NewMessage(signer) ==
  [magic     |-> WriteHex(Zeros(4), MAGIC_BYTES_HEX),
   version   |-> WriteHex(Zeros(4), padDigits(NumToHex(VERSION_NUMBER), 8)),
   parent    |-> Zeros(32),
   author    |-> Zeros(32),
   type      |-> Zeros(4),
   size      |-> Zeros(4),
   hash      |-> Zeros(32),
   signature |-> Zeros(64),
   data      |-> <<>>,
   dataNull  |-> TRUE,
   signer    |-> signer,
   frozen    |-> FALSE,
   views     |-> FALSE]

\* the code of a name without the fallback for unknown names
TypeCodeForNoFallback(name) == types(name)

\* the code the type setter writes: unknown names fall back to GenericMessage
TypeCodeFor(name) == IF types(name) = 0 THEN types("GenericMessage") ELSE types(name)

\* set type (value): on a frozen instance the assignment of this['@type']
\* throws (strict mode) before raw.type is written
TypeSet(msg, name) ==
  IF msg.frozen THEN msg
  ELSE [msg EXCEPT !.type = WriteHex(@, padDigits(NumToHex(TypeCodeFor(name)), 8))]

\* set data (value) that leaves the length field as it was
DataSetKeepsSize(msg, value) ==
  [msg EXCEPT !.hash = Sha256(Utf8RoundTrip(value)),
              !.data = value,
              !.dataNull = FALSE]

\* set data (value): value is a string or a Buffer, given as its bytes.
\* The accessor lives on the prototype and writes into this.raw only, so
\* Object.freeze(this) does not stop it.
DataSet(msg, value) ==
  [msg EXCEPT !.hash = Sha256(Utf8RoundTrip(value)),
              !.data = value,
              !.dataNull = FALSE,
              !.size = WriteHex(@, padDigits(NumToHex(Len(value)), 8))]

\* set signature (value)
SignatureSet(msg, value) ==
  [msg EXCEPT !.signature = WriteHex(@, BufToHex(value))]

\* get header
header(msg) ==
  msg.magic \o msg.version \o msg.parent \o msg.author \o msg.type \o msg.size
    \o msg.hash \o msg.signature

\* asRaw(): Buffer.concat([this.header, this.raw.data]); throws when raw.data is null
asRaw(msg) == header(msg) \o msg.data

\* sign(): the effect when it does not throw
SignEffect(msg) ==
  [msg EXCEPT !.author = WriteHex(@, BufToHex(signerPubkey(msg.signer))),
              !.signature = WriteHex(@, BufToHex(signerSign(msg.signer, Sha256(msg.data)))),
              !.frozen = TRUE]

\* sign() throws a TypeError when raw.data is null or no signer is attached
SignThrows(msg) == msg.dataNull \/ msg.signer = 0

\* verify() with the signature checked before the payload digest
VerifyOutcomeSignatureFirst(msg) ==
  IF msg.dataNull \/ msg.signer = 0 THEN "TypeError"
  ELSE IF ~signerVerify(msg.author, Sha256(msg.data), msg.signature) THEN "DidNotVerify"
  ELSE IF msg.hash # Sha256(msg.data) THEN "false"
  ELSE "true"

\* verify() returning false, as for a digest mismatch, when the verifier rejects
VerifyOutcomeRejectIsFalse(msg) ==
  IF msg.dataNull THEN "TypeError"
  ELSE IF msg.hash # Sha256(msg.data) THEN "false"
  ELSE IF msg.signer = 0 THEN "TypeError"
  ELSE IF ~signerVerify(msg.author, Sha256(msg.data), msg.signature) THEN "false"
  ELSE "true"

\* verify(): "TypeError" (raw.data null, or no signer once the digest matched),
\* "false" (digest mismatch), "DidNotVerify" (thrown Error), "true"
VerifyOutcome(msg) ==
  IF msg.dataNull THEN "TypeError"
  ELSE IF msg.hash # Sha256(msg.data) THEN "false"
  ELSE IF msg.signer = 0 THEN "TypeError"
  ELSE IF ~signerVerify(msg.author, Sha256(msg.data), msg.signature) THEN "DidNotVerify"
  ELSE "true"

\* whether verify() reaches the call of this.signer.verify
VerifyCallsVerifier(msg) ==
  ~msg.dataNull /\ msg.hash = Sha256(msg.data) /\ msg.signer # 0

\* fromRaw(input): the decoded instance; its header fields are slices of input
fromRawMessage(input) ==
  DataSet([NewMessage(0) EXCEPT
             !.magic     = Slice(input, 0, 4),
             !.version   = Slice(input, 4, 8),
             !.parent    = Slice(input, 8, 40),
             !.author    = Slice(input, 40, 72),
             !.type      = Slice(input, 72, 76),
             !.size      = Slice(input, 76, 80),
             !.hash      = Slice(input, 80, 112),
             !.signature = Slice(input, 112, HEADER_SIZE),
             !.views     = TRUE],
          Slice(input, HEADER_SIZE, Len(input)))

\* the caller's buffer after writes through the slices the instance holds
SyncWire(msg, buf) ==
  IF msg.views
  THEN Splice(Splice(Splice(Splice(buf, 40, msg.author), 72, msg.type),
                     76, msg.size), 112, msg.signature)
  ELSE buf

\* the number a buffer holds, big-endian (parseInt(buf.toString('hex'), 16))
RECURSIVE BufToNum(_)
BufToNum(buf) ==
  IF buf = <<>> THEN 0
  ELSE 256 * BufToNum(SubSeq(buf, 1, Len(buf) - 1)) + buf[Len(buf)]

\* get type with no default branch: an unlisted code has no label
typeGetNoDefault(msg) ==
  CASE BufToNum(msg.type) = GENERIC_MESSAGE_TYPE -> "GenericMessage"
    [] BufToNum(msg.type) = GENERIC_LIST_TYPE -> "GenericList"
    [] BufToNum(msg.type) = P2P_PING -> "Ping"
    [] BufToNum(msg.type) = P2P_PONG -> "Pong"
    [] BufToNum(msg.type) = TYPE_ETHEREUM_BLOCK -> "EthereumBlock"
    [] BufToNum(msg.type) = TYPE_ETHEREUM_BLOCK_NUMBER -> "EthereumBlockNumber"
    [] OTHER -> ""

\* get type: the label of the type code, by the switch of the getter
typeGet(msg) ==
  CASE BufToNum(msg.type) = GENERIC_MESSAGE_TYPE -> "GenericMessage"
    [] BufToNum(msg.type) = GENERIC_LIST_TYPE -> "GenericList"
    [] BufToNum(msg.type) = P2P_PING -> "Ping"
    [] BufToNum(msg.type) = P2P_PONG -> "Pong"
    [] BufToNum(msg.type) = TYPE_ETHEREUM_BLOCK -> "EthereumBlock"
    [] BufToNum(msg.type) = TYPE_ETHEREUM_BLOCK_NUMBER -> "EthereumBlockNumber"
    [] OTHER -> "GenericMessage"

\* fromRaw(input): the caller's input buffer after the call
fromRawInput(input) == SyncWire(fromRawMessage(input), input)

-----------------------------------------------------------------------------
(* Inputs *)

\* type names given by callers: registered ones and one that is not
TypeInputs == {"Ping", "PeerInstruction", "Bogus"}

\* string payloads: '', 'h', 'hi', 'hih', ... (ASCII text)
StrInputs == {[i \in 1..k |-> IF i % 2 = 1 THEN 104 ELSE 105] : k \in 0..MaxPayload}

\* Buffer payloads that hold bytes that are no valid UTF-8 (0xFF)
BufInputs == {[i \in 1..k |-> 255] : k \in 1..MaxPayload}

\* the value a payload byte is changed to
FlipBytes == {105}

\* lengths a received buffer is cut to: inside the header, one byte short of
\* the header, the header alone
TruncLens == {78, HEADER_SIZE - 1, HEADER_SIZE}

NoOp == [name |-> "init", type |-> "", value |-> <<>>]

-----------------------------------------------------------------------------
(* State engine: JSON values and the object heap                           *)
(*                                                                         *)
(* A JSON value is a record [t, n, s, e]: a number (t = "num", n), a       *)
(* string (t = "str", s), undefined (t = "undefined"), a reference to an   *)
(* object of the heap (t = "ref", n the address) or, for values passed by  *)
(* callers, held in patches or deep-cloned, an object written out as a     *)
(* tree (t = "obj", e the entries in insertion order).  An object of the   *)
(* heap is the sequence of its entries [k, v] in insertion order; objects  *)
(* are shared by reference as in JavaScript.  A JSON pointer "/a/b" is the *)
(* sequence of its reference tokens <<"a", "b">>.                          *)

Num(n) == [t |-> "num", n |-> n, s |-> "", e |-> <<>>]

Str(x) == [t |-> "str", n |-> 0, s |-> x, e |-> <<>>]

Ref(a) == [t |-> "ref", n |-> a, s |-> "", e |-> <<>>]

Obj(e) == [t |-> "obj", n |-> 0, s |-> "", e |-> e]

Undefined == [t |-> "undefined", n |-> 0, s |-> "", e |-> <<>>]

Null == [t |-> "null", n |-> 0, s |-> "", e |-> <<>>]

\* an Array and a Buffer given by a caller, written out: e holds the elements
\* (values) and the bytes (numbers)
Arr(e) == [t |-> "arr", n |-> 0, s |-> "", e |-> e]

Buf(e) == [t |-> "buf", n |-> 0, s |-> "", e |-> e]

\* true (n = 1) and false (n = 0)
Bool(b) == [t |-> "bool", n |-> IF b THEN 1 ELSE 0, s |-> "", e |-> <<>>]

\* an object made by a class of the caller, with no fields and no toString
\* of its own
Custom == [t |-> "custom", n |-> 0, s |-> "", e |-> <<>>]

Entry(k, v) == [k |-> k, v |-> v]

\* JavaScript truthiness
Truthy(v) ==
  CASE v.t = "num" -> v.n # 0
    [] v.t = "str" -> v.s # ""
    [] v.t = "undefined" -> FALSE
    [] v.t = "null" -> FALSE
    [] v.t = "bool" -> v.n # 0
    [] OTHER -> TRUE

HasKey(entries, k) == \E i \in 1..Len(entries) : entries[i].k = k

\* obj[k]
EntriesGet(entries, k) ==
  IF HasKey(entries, k)
  THEN entries[CHOOSE i \in 1..Len(entries) : entries[i].k = k].v
  ELSE Undefined

\* obj[k] = v: an existing key keeps its place, a new one goes last
EntriesSet(entries, k, v) ==
  IF HasKey(entries, k)
  THEN [i \in 1..Len(entries) |->
          IF entries[i].k = k THEN Entry(k, v) ELSE entries[i]]
  ELSE Append(entries, Entry(k, v))

RECURSIVE EntriesDel(_, _)
\* delete obj[k]
EntriesDel(entries, k) ==
  IF entries = <<>> THEN <<>>
  ELSE IF Head(entries).k = k THEN Tail(entries)
  ELSE <<Head(entries)>> \o EntriesDel(Tail(entries), k)

RECURSIVE Assign(_, _)
\* Object.assign(target, source) on entries: a shallow copy, key by key
Assign(target, source) ==
  IF source = <<>> THEN target
  ELSE Assign(EntriesSet(target, Head(source).k, Head(source).v), Tail(source))

RECURSIVE ReadTree(_, _)
\* the value behind v written out as a tree (a deep clone)
ReadTree(h, v) ==
  IF v.t = "ref"
  THEN Obj([i \in 1..Len(h[v.n]) |-> Entry(h[v.n][i].k, ReadTree(h, h[v.n][i].v))])
  ELSE v

RECURSIVE Alloc(_, _)
RECURSIVE AllocEntries(_, _, _)
\* a value given by a caller placed on the heap: [h |-> heap, v |-> value]
Alloc(h, tree) ==
  IF tree.t # "obj" THEN [h |-> h, v |-> tree]
  ELSE LET r == AllocEntries(h, tree.e, <<>>)
       IN [h |-> Append(r.h, r.e), v |-> Ref(Len(r.h) + 1)]

AllocEntries(h, es, acc) ==
  IF es = <<>> THEN [h |-> h, e |-> acc]
  ELSE LET a == Alloc(h, Head(es).v)
       IN AllocEntries(a.h, Tail(es), Append(acc, Entry(Head(es).k, a.v)))

RECURSIVE Json(_)
RECURSIVE JsonEntries(_)
RECURSIVE JsonElements(_)
\* JSON.stringify of a tree: fields in insertion order
Json(tree) ==
  CASE tree.t = "num" -> ToString(tree.n)
    [] tree.t = "str" -> "\"" \o tree.s \o "\""
    [] tree.t = "obj" -> "{" \o JsonEntries(tree.e) \o "}"
    [] tree.t = "arr" -> "[" \o JsonElements(tree.e) \o "]"
    [] tree.t = "null" -> "null"
    [] tree.t = "bool" -> IF tree.n # 0 THEN "true" ELSE "false"
    [] OTHER -> "undefined"

JsonElements(es) ==
  IF es = <<>> THEN ""
  ELSE Json(Head(es)) \o (IF Len(es) > 1 THEN "," ELSE "") \o JsonElements(Tail(es))

JsonEntries(es) ==
  IF es = <<>> THEN ""
  ELSE "\"" \o Head(es).k \o "\":" \o Json(Head(es).v)
         \o (IF Len(es) > 1 THEN "," ELSE "") \o JsonEntries(Tail(es))

\* x.charCodeAt(0) and String.fromCharCode(c) on the letters the inputs use
CharCodeAt(x) ==
  CASE x = "a" -> 97
    [] x = "b" -> 98
    [] OTHER -> 63

FromCharCode(c) ==
  CASE c = 97 -> "a"
    [] c = 98 -> "b"
    [] OTHER -> "?"

RECURSIVE BytesToString(_)
\* the bytes of a Buffer read as text
BytesToString(bytes) ==
  IF bytes = <<>> THEN ""
  ELSE FromCharCode(Head(bytes)) \o BytesToString(Tail(bytes))

\* sha256 hex digest of a string: injective, collisions are out of scope
Sha256Hex(x) == "sha256(" \o x \o ")"

RECURSIVE PtrGet(_, _, _)
\* pointer.get(obj, path): [ok, v]; throws (ok = FALSE) on a token that is
\* not a key of an object
PtrGet(h, v, path) ==
  IF path = <<>> THEN [ok |-> TRUE, v |-> v]
  ELSE IF v.t = "ref" /\ HasKey(h[v.n], Head(path))
  THEN PtrGet(h, EntriesGet(h[v.n], Head(path)), Tail(path))
  ELSE [ok |-> FALSE, v |-> Undefined]

RECURSIVE PtrSetAt(_, _, _, _)
\* pointer.set below the object at address a: missing intermediate objects
\* are created; a primitive on the way makes it throw (ok = FALSE)
PtrSetAt(h, a, path, val) ==
  IF Len(path) = 1
  THEN [ok |-> TRUE, h |-> [h EXCEPT ![a] = EntriesSet(@, path[1], val)]]
  ELSE IF ~HasKey(h[a], path[1])
  THEN PtrSetAt(Append([h EXCEPT ![a] = EntriesSet(@, path[1], Ref(Len(h) + 1))], <<>>),
                Len(h) + 1, Tail(path), val)
  ELSE IF EntriesGet(h[a], path[1]).t = "ref"
  THEN PtrSetAt(h, EntriesGet(h[a], path[1]).n, Tail(path), val)
  ELSE [ok |-> FALSE, h |-> h]

\* pointer.set(obj, path, val): the root cannot be set
PtrSet(h, v, path, val) ==
  IF path = <<>> \/ v.t # "ref" THEN [ok |-> FALSE, h |-> h]
  ELSE PtrSetAt(h, v.n, path, val)


-----------------------------------------------------------------------------
(* fast-json-patch: the observer's mirror, generate and applyPatch *)

Patch(o, path, v) == [op |-> o, path |-> path, value |-> v]

RECURSIVE Generate(_, _, _)
RECURSIVE GenerateOld(_, _, _, _)
RECURSIVE GenerateNew(_, _, _, _)

\* the loop of _generate over the mirror's keys, last key first
GenerateOld(mirror, obj, path, i) ==
  IF i = 0 THEN <<>>
  ELSE
    LET key == mirror.e[i].k
        oldVal == mirror.e[i].v
        newVal == EntriesGet(obj.e, key)
        here == IF HasKey(obj.e, key) /\ newVal.t # "undefined"
                THEN IF oldVal.t = "obj" /\ newVal.t = "obj"
                     THEN Generate(oldVal, newVal, Append(path, key))
                     ELSE IF oldVal # newVal
                     THEN <<Patch("replace", Append(path, key), newVal)>>
                     ELSE <<>>
                ELSE <<Patch("remove", Append(path, key), Undefined)>>
    IN here \o GenerateOld(mirror, obj, path, i - 1)

\* the loop of _generate over the object's keys that the mirror lacks
GenerateNew(mirror, obj, path, i) ==
  IF i > Len(obj.e) THEN <<>>
  ELSE (IF ~HasKey(mirror.e, obj.e[i].k) /\ obj.e[i].v.t # "undefined"
        THEN <<Patch("add", Append(path, obj.e[i].k), obj.e[i].v)>>
        ELSE <<>>)
         \o GenerateNew(mirror, obj, path, i + 1)

\* _generate(mirror, obj, patches, path): the patches that turn mirror into obj
Generate(mirror, obj, path) ==
  LET deleted == \E i \in 1..Len(mirror.e) :
                    ~(HasKey(obj.e, mirror.e[i].k)
                        /\ EntriesGet(obj.e, mirror.e[i].k).t # "undefined")
  IN GenerateOld(mirror, obj, path, Len(mirror.e))
       \o (IF ~deleted /\ Len(obj.e) = Len(mirror.e) THEN <<>>
           ELSE GenerateNew(mirror, obj, path, 1))

RECURSIVE TreeSet(_, _, _)
\* add / replace of a patch applied to a tree
TreeSet(tree, path, v) ==
  IF Len(path) = 1 THEN Obj(EntriesSet(tree.e, path[1], v))
  ELSE Obj(EntriesSet(tree.e, path[1],
                      TreeSet(EntriesGet(tree.e, path[1]), Tail(path), v)))

RECURSIVE TreeDel(_, _)
\* remove of a patch applied to a tree
TreeDel(tree, path) ==
  IF Len(path) = 1 THEN Obj(EntriesDel(tree.e, path[1]))
  ELSE Obj(EntriesSet(tree.e, path[1],
                      TreeDel(EntriesGet(tree.e, path[1]), Tail(path))))

RECURSIVE TreeApply(_, _)
\* applyPatch(mirror.value, patches) for the patches generate produced
TreeApply(tree, ops) ==
  IF ops = <<>> THEN tree
  ELSE TreeApply(IF Head(ops).op = "remove"
                 THEN TreeDel(tree, Head(ops).path)
                 ELSE TreeSet(tree, Head(ops).path, Head(ops).value),
                 Tail(ops))

RECURSIVE HeapApplyAt(_, _, _, _)
\* applyOperation(document, operation) below the object at address a: the
\* walk throws (ok = FALSE) when a token on the way is no object
HeapApplyAt(h, a, operation, path) ==
  IF Len(path) = 1
  THEN [ok |-> TRUE,
        h |-> [h EXCEPT ![a] = IF operation.op = "remove"
                               THEN EntriesDel(@, path[1])
                               ELSE EntriesSet(@, path[1], operation.value)]]
  ELSE IF EntriesGet(h[a], path[1]).t = "ref"
  THEN HeapApplyAt(h, EntriesGet(h[a], path[1]).n, operation, Tail(path))
  ELSE [ok |-> FALSE, h |-> h]

RECURSIVE HeapApply(_, _, _)
\* monitor.applyPatch(document, ops): the operations in order, in place;
\* the values of the operations are placed on the heap as the caller built them
HeapApply(h, doc, ops) ==
  IF ops = <<>> THEN [ok |-> TRUE, h |-> h]
  ELSE IF doc.t # "ref" \/ Head(ops).path = <<>> THEN [ok |-> FALSE, h |-> h]
  ELSE LET a == Alloc(h, Head(ops).value)
           r == HeapApplyAt(a.h, doc.n, [Head(ops) EXCEPT !.value = a.v], Head(ops).path)
       IN IF r.ok THEN HeapApply(r.h, doc, Tail(ops)) ELSE r


-----------------------------------------------------------------------------
(* State: an instance is a record of this['@data'], this['@entity']['@data'], *)
(* this.value, '@type', the observer's mirror, the clock, '@parent', '@id',   *)
(* '@did' and '@changes' ("" and <<>> stand for undefined).                   *)

NoState ==
  [exists |-> FALSE, data |-> Undefined, entity |-> Undefined, value |-> Undefined,
   type |-> "", observed |-> FALSE, mirror |-> Obj(<<>>), clock |-> 0,
   parent |-> "", id |-> "", did |-> "", changes |-> <<>>]

\* an object that carries its own truthy '@type' and '@data'
IsEnvelope(h, v) ==
  /\ v.t = "ref"
  /\ Truthy(EntriesGet(h[v.n], "@type"))
  /\ Truthy(EntriesGet(h[v.n], "@data"))

RECURSIVE serialize(_, _, _)
\* serialize(input): strings, arrays and plain objects through
\* JSON.stringify, a Buffer as its own bytes, an envelope by its '@data'; a
\* falsy input stands for this['@data'].  By the name of the constructor of
\* anything else: a Boolean through JSON.stringify, an object of a class
\* without toString as the text of Object.prototype.toString; a number
\* throws, 'utf8' being no radix ("throws")
serialize(h, inst, input) ==
  LET in == IF Truthy(input) THEN input ELSE inst.data
  IN CASE in.t = "str" -> Json(in)
       [] in.t = "arr" -> Json(in)
       [] in.t = "buf" -> BytesToString(in.e)
       [] in.t = "ref" -> IF IsEnvelope(h, in)
                          THEN serialize(h, inst, EntriesGet(h[in.n], "@data"))
                          ELSE Json(ReadTree(h, in))
       [] in.t = "bool" -> Json(in)
       [] in.t = "custom" -> "[object Object]"
       [] OTHER -> "throws"

\* new State(data) for a value `data` (an object is one of the heap):
\* [h, inst].  this['@data'] is data || {}; '@buffer' is filled from the
\* serialization of the data as given; a string is kept in the entity as the
\* array of its character codes
NewStateOn(h, data) ==
  LET h1 == IF Truthy(data) THEN h ELSE Append(h, <<>>)
      own == IF Truthy(data) THEN data ELSE Ref(Len(h) + 1)
      entity == CASE own.t = "str" ->
                       Arr([i \in 1..Len(own.s) |-> Num(CharCodeAt(SubSeq(own.s, i, i)))])
                  [] IsEnvelope(h1, own) -> EntriesGet(h1[own.n], "@data")
                  [] OTHER -> data
      type == CASE own.t = "str" -> "String"
                [] own.t = "arr" -> "Array"
                [] own.t = "buf" -> "Buffer"
                [] IsEnvelope(h1, own) -> EntriesGet(h1[own.n], "@type").s
                [] OTHER -> "Object"
  IN [h |-> Append(h1, <<>>),
      inst |-> [exists |-> TRUE, data |-> own, entity |-> entity,
                value |-> Ref(Len(h1) + 1), type |-> type,
                observed |-> Truthy(entity),
                mirror |-> IF Truthy(entity) THEN ReadTree(h1, entity) ELSE Obj(<<>>),
                clock |-> 0, parent |-> "", id |-> "", did |-> "", changes |-> <<>>]]

\* the getter size of an instance as the constructor leaves it: the length
\* of '@buffer', which the constructor fills with the serialization of the
\* data it was given
size(h, inst) == Len(serialize(h, inst, inst.data))

\* new State(data) for an object literal given by the caller
NewState(h, tree) == NewStateOn(Alloc(h, tree).h, Alloc(h, tree).v)

\* fingerprint(), the getter id
fingerprint(h, inst) == Sha256Hex(serialize(h, inst, inst.entity))

\* a list of patch operations held where a value is expected
Patches(ops) == [t |-> "patches", n |-> 0, s |-> "", e |-> ops]

\* the payload of a signal: the diff it carries (for 'message' under the key
\* 'changes') and the value it carries as the state (for 'message' under the
\* key 'state'; for 'state' the payload itself)
Signal(name, defined, changes, state) ==
  [name |-> name, defined |-> defined, changes |-> changes, state |-> state]

\* commit() with the clock raised only when the diff is not empty
CommitStateTickOnChange(h, inst) ==
  LET changes == IF inst.observed
                 THEN Generate(inst.mirror, ReadTree(h, inst.entity), <<>>)
                 ELSE inst.changes
  IN [inst EXCEPT !.clock = IF changes # <<>> THEN @ + 1 ELSE @,
                  !.parent = fingerprint(h, inst),
                  !.changes = changes,
                  !.mirror = IF inst.observed THEN TreeApply(@, changes) ELSE @,
                  !.id = fingerprint(h, inst)]

\* commit(): the instance afterwards
CommitState(h, inst) ==
  LET changes == IF inst.observed
                 THEN Generate(inst.mirror, ReadTree(h, inst.entity), <<>>)
                 ELSE inst.changes
  IN [inst EXCEPT !.clock = @ + 1,
                  !.parent = fingerprint(h, inst),
                  !.changes = changes,
                  !.mirror = IF inst.observed THEN TreeApply(@, changes) ELSE @,
                  !.id = fingerprint(h, inst)]

\* commit() that emits its three signals whatever the diff is
CommitSignalsAlways(h, inst) ==
  LET changes == CommitState(h, inst).changes
  IN <<Signal("changes", TRUE, changes, Undefined),
       Signal("state", FALSE, <<>>, Undefined),
       Signal("message", TRUE, changes, Patches(changes))>>

\* commit() that emits 'message' before 'changes' and 'state'
CommitSignalsMessageFirst(h, inst) ==
  LET changes == CommitState(h, inst).changes
  IN IF changes # <<>>
     THEN <<Signal("message", TRUE, changes, Patches(changes)),
            Signal("changes", TRUE, changes, Undefined),
            Signal("state", FALSE, <<>>, Undefined)>>
     ELSE <<>>

\* commit(): the signals it emits, in order ('state' carries this['@state'],
\* which is undefined; the message carries the changes under both keys)
CommitSignals(h, inst) ==
  LET changes == CommitState(h, inst).changes
  IN IF changes # <<>>
     THEN <<Signal("changes", TRUE, changes, Undefined),
            Signal("state", FALSE, <<>>, Undefined),
            Signal("message", TRUE, changes, Patches(changes))>>
     ELSE <<>>

\* set(path, value) up to its commit: [ok, h]; the value is written to
\* this.value, then to the entity data, then to this.value again
\* set() that writes to this.value only
SetWritesValueOnly(h, inst, path, val) ==
  LET r1 == PtrSet(h, inst.value, path, val)
      r3 == PtrSet(r1.h, inst.value, path, val)
  IN IF ~r1.ok THEN r1 ELSE r3

SetWrites(h, inst, path, val) ==
  LET r1 == PtrSet(h, inst.value, path, val)
      r2 == PtrSet(r1.h, inst.entity, path, val)
      r3 == PtrSet(r2.h, inst.value, path, val)
  IN IF ~r1.ok THEN r1 ELSE IF ~r2.ok THEN r2 ELSE r3

\* overlay(data): the instance afterwards, given the temporary State of data
\* and the address of the merged object
OverlayState(h, inst, merged) ==
  LET i1 == [inst EXCEPT !.parent = inst.id, !.data = Ref(merged)]
  IN [i1 EXCEPT !.did = "did:fabric:" \o fingerprint(h, i1),
                !.id = fingerprint(h, i1)]

\* Object.assign({}, this['@data'], state['@data']) as entries
OverlayMerge(h, inst, other) ==
  Assign(Assign(<<>>, IF inst.data.t = "ref" THEN h[inst.data.n] ELSE <<>>),
         IF other.data.t = "ref" THEN h[other.data.n] ELSE <<>>)

\* Object.assign({ '@parent': this.id }, this['@data']) as entries
ForkData(h, inst) ==
  Assign(<<Entry("@parent", Str(fingerprint(h, inst)))>>,
         IF inst.data.t = "ref" THEN h[inst.data.n] ELSE <<>>)

\* get(path): [threw, v]; when the path does not resolve, the handler logs
\* pointer.get(data, '/'), which throws in turn unless the data has a key ''
GetResult(h, inst, path) ==
  LET r == PtrGet(h, inst.entity, path)
  IN IF r.ok THEN [threw |-> FALSE, v |-> ReadTree(h, r.v)]
     ELSE [threw |-> ~PtrGet(h, inst.entity, <<"">>).ok, v |-> Undefined]

-----------------------------------------------------------------------------
(* Addresses are not observable: after each call the objects that can      *)
(* still be reached are renumbered in the order they are found from the    *)
(* instances, and the others are dropped (garbage collection).             *)

Roots(states) ==
  <<states.s.data, states.s.entity, states.s.value,
    states.f.data, states.f.entity, states.f.value>>

RECURSIVE Visit(_, _, _)
\* the reachable addresses in the order of a depth-first walk
Visit(h, todo, seen) ==
  IF todo = <<>> THEN seen
  ELSE LET v == Head(todo)
       IN IF v.t # "ref" \/ (\E i \in 1..Len(seen) : seen[i] = v.n)
          THEN Visit(h, Tail(todo), seen)
          ELSE Visit(h, [i \in 1..Len(h[v.n]) |-> h[v.n][i].v] \o Tail(todo),
                     Append(seen, v.n))

Renumber(order, v) ==
  IF v.t = "ref" THEN Ref(CHOOSE i \in 1..Len(order) : order[i] = v.n) ELSE v

CompactHeap(h, states) ==
  LET order == Visit(h, Roots(states), <<>>)
  IN [i \in 1..Len(order) |->
        [j \in 1..Len(h[order[i]]) |->
           Entry(h[order[i]][j].k, Renumber(order, h[order[i]][j].v))]]

CompactInst(order, inst) ==
  [inst EXCEPT !.data = Renumber(order, @),
               !.entity = Renumber(order, @),
               !.value = Renumber(order, @)]

CompactStates(h, states) ==
  LET order == Visit(h, Roots(states), <<>>)
  IN [w \in {"s", "f"} |-> CompactInst(order, states[w])]


-----------------------------------------------------------------------------
(* Message actions *)

NoCall == [name |-> "init", on |-> "s", path |-> <<>>, value |-> Undefined, ops |-> <<>>]

\* no digest is being computed
NoHash == [pc |-> "idle", fn |-> "", env |-> "node", input |-> Undefined,
           hash |-> "", promise |-> "none", timers |-> 0, result |-> ""]

\* a Node on which start() was not called
NoNode == [pc |-> "idle",
           settings |-> [autorun |-> TRUE, bitcoin |-> FALSE, peering |-> TRUE],
           started |-> <<>>, calls |-> 0, readies |-> 0, resolved |-> 0]

\* a CLI after its constructor: of this._state the content (with one of its
\* collections) and the contracts; no observer until start()
NoCli == [state |-> Obj(<<Entry("content", Obj(<<Entry("documents", Obj(<<>>))>>)),
                          Entry("contracts", Obj(<<>>))>>),
          mirror |-> Undefined, clock |-> 0,
          call |-> NoCall, result |-> Undefined, errors |-> 0, emitted |-> <<>>]

OtherIdle == hp = NoHash /\ node = NoNode /\ cli = NoCli

\* no State instance exists
StateIdle ==
  /\ heap = <<>>
  /\ st = [s |-> NoState, f |-> NoState]
  /\ call = NoCall
  /\ result = [threw |-> FALSE, v |-> Undefined]
  /\ emitted = <<>>

\* no Message was worked on
MsgIdle ==
  /\ m = NewMessage(0)
  /\ wire = [has |-> FALSE, altered |-> FALSE, buf |-> <<>>]
  /\ op = NoOp
  /\ outcome = "ok"
  /\ verifierCalled = FALSE
  /\ warnings = 0

MsgInit ==
  /\ StateIdle
  /\ OtherIdle
  /\ m = NewMessage(0)
  /\ wire = [has |-> FALSE, altered |-> FALSE, buf |-> <<>>]
  /\ op = NoOp
  /\ outcome = "ok"
  /\ verifierCalled = FALSE
  /\ warnings = 0

\* The instance at hand goes through the codec's data flow: a sender
\* constructs, assigns and signs it (Local), encodes it into the buffer
\* `wire`, the transport delivers the buffer, altered at most once (InFlight),
\* and the receiver decodes it and attaches a signer, signs or verifies
\* (Received: the instance holds slices of `wire`).  Constructing a new
\* instance starts over.
Local == ~wire.has

InFlight == wire.has /\ ~m.views

Received == wire.has /\ m.views

\* new Message({ type, data, signer }): type "" and data '' are falsy
Construct(t, d, s) ==
  /\ m' = IF d # <<>> /\ t # ""
          THEN DataSet(TypeSet(NewMessage(s), t), d)
          ELSE NewMessage(s)
  /\ warnings' = IF d # <<>> /\ t # "" /\ types(t) = 0 THEN 1 ELSE 0
  /\ op' = [name |-> "construct", type |-> t, value |-> d]
  /\ outcome' = "ok"
  /\ verifierCalled' = FALSE
  /\ wire' = [has |-> FALSE, altered |-> FALSE, buf |-> <<>>]
  /\ UNCHANGED <<stateVars, otherVars>>

\* message.type = t
SetType(t) ==
  /\ Local
  /\ m' = TypeSet(m, t)
  /\ wire' = [wire EXCEPT !.buf = SyncWire(m', @)]
  /\ warnings' = IF types(t) = 0 THEN 1 ELSE 0
  /\ op' = [name |-> "setType", type |-> t, value |-> <<>>]
  /\ outcome' = IF m.frozen THEN "TypeError" ELSE "ok"
  /\ verifierCalled' = FALSE
  /\ UNCHANGED <<stateVars, otherVars>>

\* message.data = v
SetData(v) ==
  /\ Local
  /\ m' = DataSet(m, v)
  /\ wire' = [wire EXCEPT !.buf = SyncWire(m', @)]
  /\ op' = [name |-> "setData", type |-> "", value |-> v]
  /\ outcome' = "ok"
  /\ verifierCalled' = FALSE
  /\ warnings' = 0
  /\ UNCHANGED <<stateVars, otherVars>>

\* message.signature = v
SetSignature(v) ==
  /\ Local
  /\ m' = SignatureSet(m, v)
  /\ wire' = [wire EXCEPT !.buf = SyncWire(m', @)]
  /\ op' = [name |-> "setSignature", type |-> "", value |-> <<>>]
  /\ outcome' = "ok"
  /\ verifierCalled' = FALSE
  /\ warnings' = 0
  /\ UNCHANGED <<stateVars, otherVars>>

\* message._setSigner(s): the assignment throws on a frozen instance
SetSigner(s) ==
  /\ ~InFlight
  /\ m' = IF m.frozen THEN m ELSE [m EXCEPT !.signer = s]
  /\ op' = [name |-> "setSigner", type |-> "", value |-> <<>>]
  /\ outcome' = IF m.frozen THEN "TypeError" ELSE "ok"
  /\ verifierCalled' = FALSE
  /\ warnings' = 0
  /\ UNCHANGED wire
  /\ UNCHANGED <<stateVars, otherVars>>

\* message.sign()
Sign ==
  /\ ~InFlight
  /\ m' = IF SignThrows(m) THEN m ELSE SignEffect(m)
  /\ wire' = [wire EXCEPT !.buf = SyncWire(m', @)]
  /\ op' = [name |-> "sign", type |-> "", value |-> <<>>]
  /\ outcome' = IF SignThrows(m) THEN "TypeError" ELSE "ok"
  /\ verifierCalled' = FALSE
  /\ warnings' = 0
  /\ UNCHANGED <<stateVars, otherVars>>

\* message.verify()
Verify ==
  /\ ~InFlight
  /\ op' = [name |-> "verify", type |-> "", value |-> <<>>]
  /\ outcome' = VerifyOutcome(m)
  /\ verifierCalled' = VerifyCallsVerifier(m)
  /\ warnings' = 0
  /\ UNCHANGED <<m, wire>>
  /\ UNCHANGED <<stateVars, otherVars>>

\* message.raw.data[i - 1] = b: a payload byte changed in place, the header
\* fields are left as they are
TamperPayload(i, b) ==
  /\ Local
  /\ ~m.dataNull
  /\ i \in 1..Len(m.data)
  /\ m.data[i] # b
  /\ m' = [m EXCEPT !.data[i] = b]
  /\ op' = [name |-> "tamper", type |-> "", value |-> <<>>]
  /\ outcome' = "ok"
  /\ verifierCalled' = FALSE
  /\ warnings' = 0
  /\ UNCHANGED wire
  /\ UNCHANGED <<stateVars, otherVars>>

\* wire = message.asRaw(): a new buffer; Buffer.concat throws on a null payload
Encode ==
  /\ Local
  /\ wire' = IF m.dataNull THEN wire
             ELSE [has |-> TRUE, altered |-> FALSE, buf |-> asRaw(m)]
  /\ UNCHANGED m
  /\ op' = [name |-> "encode", type |-> "", value |-> <<>>]
  /\ outcome' = IF m.dataNull THEN "TypeError" ELSE "ok"
  /\ verifierCalled' = FALSE
  /\ warnings' = 0
  /\ UNCHANGED <<stateVars, otherVars>>

\* the transport delivers other bytes than were encoded (a new buffer)
WireChange(buf) ==
  /\ InFlight
  /\ ~wire.altered
  /\ buf # wire.buf
  /\ wire' = [has |-> TRUE, altered |-> TRUE, buf |-> buf]
  /\ UNCHANGED m
  /\ op' = [name |-> "wire", type |-> "", value |-> <<>>]
  /\ outcome' = "ok"
  /\ verifierCalled' = FALSE
  /\ warnings' = 0
  /\ UNCHANGED <<stateVars, otherVars>>

WireTruncate(n) == WireChange(Slice(wire.buf, 0, n))

WireAppend(b) ==
  /\ Len(wire.buf) < HEADER_SIZE + MaxPayload + 1
  /\ WireChange(Append(wire.buf, b))

WireFlip(i, b) ==
  /\ i \in (HEADER_SIZE + 1)..Len(wire.buf)
  /\ wire.buf[i] # b
  /\ WireChange([wire.buf EXCEPT ![i] = b])

\* the transport delivers the bytes with another type code (the low byte
\* of the field at offset 72 changed)
WireRetype(b) ==
  /\ Len(wire.buf) >= 76
  /\ wire.buf[76] # b
  /\ WireChange([wire.buf EXCEPT ![76] = b])

\* m = Message.fromRaw(wire); fromRaw(null) returns null
Decode ==
  /\ ~Received
  /\ m' = IF wire.has THEN fromRawMessage(wire.buf) ELSE m
  /\ wire' = IF wire.has THEN [wire EXCEPT !.buf = fromRawInput(@)] ELSE wire
  /\ op' = [name |-> "decode", type |-> "", value |-> wire.buf]
  /\ outcome' = IF wire.has THEN "ok" ELSE "null"
  /\ verifierCalled' = FALSE
  /\ warnings' = 0
  /\ UNCHANGED <<stateVars, otherVars>>

MsgNext ==
  \/ \E t \in TypeInputs \cup {""}, d \in StrInputs, s \in Signers \cup {0} : Construct(t, d, s)
  \/ \E t \in TypeInputs : SetType(t)
  \/ \E v \in StrInputs \cup BufInputs : SetData(v)
  \/ SetSignature(Zeros(64))
  \/ \E s \in Signers \cup {0} : SetSigner(s)
  \/ Sign
  \/ Verify
  \/ \E i \in 1..MaxPayload, b \in FlipBytes : TamperPayload(i, b)
  \/ Encode
  \/ \E n \in TruncLens : WireTruncate(n)
  \/ \E b \in FlipBytes : WireAppend(b)
  \/ \E i \in (HEADER_SIZE + 1)..(HEADER_SIZE + MaxPayload), b \in FlipBytes : WireFlip(i, b)
  \/ \E b \in FlipBytes : WireRetype(b)
  \/ Decode

Spec == MsgInit /\ [][MsgNext]_vars

-----------------------------------------------------------------------------
(* State actions *)

\* s is the instance the caller constructs, f its fork; the fork is written
\* to, read and committed, the other calls are made on s
Instances == {"s", "f"}

Key(k, v) == Obj(<<Entry(k, v)>>)

\* data given to the constructor: { a: 1 }, { a: { b: 1 } }
DataInputs == {Key("a", Num(1)), Key("a", Key("b", Num(1)))}

\* pointers given to get and set: /a, /a/b
Paths == {<<"a">>, <<"a", "b">>}

\* values given to set: 1, 2, { b: 2 }
SetValues == {Num(1), Num(2), Key("b", Num(2))}

\* data given to overlay: { b: 2 }
OverlayInputs == {Key("b", Num(2))}

\* change-sets given to _applyChanges
PatchInputs ==
  {<<Patch("replace", <<"a">>, Num(2))>>,
   <<Patch("remove", <<"a">>, Undefined)>>}

Call(name, w, path, value, ops) ==
  [name |-> name, on |-> w, path |-> path, value |-> value, ops |-> ops]

Returned(v) == [threw |-> FALSE, v |-> v]

\* the instance itself as a return value (return this)
This(w) == [t |-> "instance", n |-> 0, s |-> w, e |-> <<>>]

Threw == [threw |-> TRUE, v |-> Undefined]

\* the heap and the instances after a call, unreachable objects dropped
Finish(h, states) ==
  /\ heap' = CompactHeap(h, states)
  /\ st' = CompactStates(h, states)

StateInit == MsgIdle /\ StateIdle /\ OtherIdle

\* the commits of the instances together stay within the bound
CanCommit == st.s.clock + st.f.clock < MaxClock

\* s = new State(data)
SConstruct(tree) ==
  /\ Finish(NewState(<<>>, tree).h, [s |-> NewState(<<>>, tree).inst, f |-> NoState])
  /\ call' = Call("construct", "s", <<>>, tree, <<>>)
  /\ result' = Returned(Undefined)
  /\ emitted' = <<>>
  /\ UNCHANGED <<msgVars, otherVars>>

\* st[w].get(path)
SGet(w, path) ==
  /\ st[w].exists
  /\ call' = Call("get", w, path, Undefined, <<>>)
  /\ result' = GetResult(heap, st[w], path)
  /\ emitted' = <<>>
  /\ UNCHANGED <<heap, st, msgVars, otherVars>>

\* st[w].set(path, value): the writes, then commit()
SSet(w, path, tree) ==
  /\ st[w].exists
  /\ CanCommit
  /\ LET a == Alloc(heap, tree)
         r == SetWrites(a.h, st[w], path, a.v)
     IN /\ Finish(r.h, IF r.ok THEN [st EXCEPT ![w] = CommitState(r.h, @)] ELSE st)
        /\ result' = IF r.ok THEN Returned(Undefined) ELSE Threw
        /\ emitted' = IF r.ok THEN CommitSignals(r.h, st[w]) ELSE <<>>
  /\ call' = Call("set", w, path, tree, <<>>)
  /\ UNCHANGED <<msgVars, otherVars>>

\* st[w].commit()
SCommit(w) ==
  /\ st[w].exists
  /\ CanCommit
  /\ Finish(heap, [st EXCEPT ![w] = CommitState(heap, @)])
  /\ call' = Call("commit", w, <<>>, Undefined, <<>>)
  /\ result' = Returned(Undefined)
  /\ emitted' = CommitSignals(heap, st[w])
  /\ UNCHANGED <<msgVars, otherVars>>

\* st[w].render(): '@id', '@output', then commit(); returns the output
SRender(w) ==
  /\ st[w].exists
  /\ CanCommit
  /\ Finish(heap, [st EXCEPT ![w] =
                      CommitState(heap, [st[w] EXCEPT !.id = fingerprint(heap, st[w])])])
  /\ call' = Call("render", w, <<>>, Undefined, <<>>)
  /\ result' = Returned(Str(serialize(heap, st[w], st[w].entity)))
  /\ emitted' = CommitSignals(heap, st[w])
  /\ UNCHANGED <<msgVars, otherVars>>

\* st[w]._applyChanges(ops): applyPatch on this['@data'], then commit(); a
\* throw of applyPatch ends in the handler, which throws in turn
SApplyChanges(w, ops) ==
  /\ st[w].exists
  /\ CanCommit
  /\ LET r == HeapApply(heap, st[w].data, ops)
     IN /\ Finish(r.h, IF r.ok THEN [st EXCEPT ![w] = CommitState(r.h, @)] ELSE st)
        /\ result' = IF r.ok THEN Returned(Undefined) ELSE Threw
        /\ emitted' = IF r.ok THEN CommitSignals(r.h, st[w]) ELSE <<>>
  /\ call' = Call("applyChanges", w, <<>>, Undefined, ops)
  /\ UNCHANGED <<msgVars, otherVars>>

\* st[w].overlay(data)
SOverlay(w, tree) ==
  /\ st[w].exists
  /\ st[w].did = ""
  /\ LET tmp == NewState(heap, tree)
         h2 == Append(tmp.h, OverlayMerge(tmp.h, st[w], tmp.inst))
     IN Finish(h2, [st EXCEPT ![w] = OverlayState(h2, @, Len(h2))])
  /\ call' = Call("overlay", w, <<>>, tree, <<>>)
  /\ result' = Returned(This(w))
  /\ emitted' = <<>>
  /\ UNCHANGED <<msgVars, otherVars>>

\* f = s.fork()
SFork ==
  /\ st.s.exists
  /\ ~st.f.exists
  /\ LET h1 == Append(heap, ForkData(heap, st.s))
         n == NewStateOn(h1, Ref(Len(h1)))
     IN Finish(n.h, [st EXCEPT !.f = n.inst])
  /\ call' = Call("fork", "s", <<>>, Undefined, <<>>)
  /\ result' = Returned(Undefined)
  /\ emitted' = <<>>
  /\ UNCHANGED <<msgVars, otherVars>>

StateNext ==
  \/ \E tree \in DataInputs : SConstruct(tree)
  \/ \E w \in Instances, path \in Paths : SGet(w, path)
  \/ \E w \in Instances, path \in Paths, v \in SetValues : SSet(w, path, v)
  \/ \E w \in Instances : SCommit(w)
  \/ SRender("s")
  \/ \E ops \in PatchInputs : SApplyChanges("s", ops)
  \/ \E tree \in OverlayInputs : SOverlay("s", tree)
  \/ SFork

StateSpec == StateInit /\ [][StateNext]_vars

-----------------------------------------------------------------------------
(* Hash256: one call of digest, compute or hash at a time, on the single    *)
(* thread of JavaScript.  hp.pc is the position of the caller: "called",    *)
(* in the loop of compute at its test ("test") or in its body ("sleep"),    *)
(* "returned", "threw", or back at the top level waiting for the promise    *)
(* of hash ("awaiting").  hp.promise is the promise of Hash256.hash: the    *)
(* digest of crypto.subtle is computed off the thread, and a callback of a  *)
(* settled promise runs only when the thread has nothing on its stack.      *)

HashEnvs == {"node", "browser"}

HashInputs == {Str(""), Str("a"), Str("ab"), Buf(<<>>), Buf(<<97>>), Buf(<<97, 98>>), Num(1)}

\* typeof input === 'string' || input instanceof Buffer
Digestible(input) == input.t \in {"str", "buf"}

\* SHA-256 of the input, as hex
Sha256Of(input) ==
  Sha256Hex(IF input.t = "buf" THEN BytesToString(input.e) ELSE input.s)

\* the thread has nothing on its stack
StackEmpty == hp.pc \in {"idle", "awaiting", "returned", "threw"}

\* Hash256.digest(input) or Hash256.compute(input) is called
HCall(fn, env, input) ==
  /\ StackEmpty /\ hp.pc # "awaiting"
  /\ hp' = [NoHash EXCEPT !.pc = "called", !.fn = fn, !.env = env, !.input = input]
  /\ UNCHANGED <<msgVars, stateVars, node, cli>>

\* the body up to the loop: digest tests the type of its input; outside a
\* browser the digest is computed at once (createHash().update() throws for
\* what is neither a string nor a Buffer); in a browser compute calls
\* Hash256.hash, which leaves a pending promise, and enters its loop
HEnter ==
  /\ hp.pc = "called"
  /\ hp' = IF ~Digestible(hp.input) /\ (hp.fn = "digest" \/ hp.env = "node")
           THEN [hp EXCEPT !.pc = "threw"]
           ELSE IF hp.env = "node"
           THEN [hp EXCEPT !.pc = "returned", !.result = Sha256Of(hp.input)]
           ELSE [hp EXCEPT !.pc = "test", !.promise = "pending"]
  /\ UNCHANGED <<msgVars, stateVars, node, cli>>

\* while (!hash)
HTest ==
  /\ hp.pc = "test"
  /\ hp' = IF hp.hash = "" THEN [hp EXCEPT !.pc = "sleep"]
           ELSE [hp EXCEPT !.pc = "returned", !.result = hp.hash]
  /\ UNCHANGED <<msgVars, stateVars, node, cli>>

\* sleep(1): a timer and a promise are created, nothing waits for them
HSleep ==
  /\ hp.pc = "sleep"
  /\ hp' = [hp EXCEPT !.pc = "test", !.timers = Min(@ + 1, MaxTimers)]
  /\ UNCHANGED <<msgVars, stateVars, node, cli>>

\* Hash256.hash(input) called from the top level, its promise kept
HHash(input) ==
  /\ StackEmpty /\ hp.pc # "awaiting"
  /\ Digestible(input)
  /\ hp' = [NoHash EXCEPT !.pc = "awaiting", !.fn = "hash", !.env = "browser",
                          !.input = input, !.promise = "pending"]
  /\ UNCHANGED <<msgVars, stateVars, node, cli>>

\* crypto.subtle.digest finishes off the thread: the promise is settled and
\* its callback is queued
HSettle ==
  /\ hp.promise = "pending"
  /\ hp' = [hp EXCEPT !.promise = "settled"]
  /\ UNCHANGED <<msgVars, stateVars, node, cli>>

\* the queued callback runs: result => { hash = result }
HRunJob ==
  /\ hp.promise = "settled"
  /\ StackEmpty
  /\ hp' = [hp EXCEPT !.promise = "none", !.hash = Sha256Of(hp.input),
                      !.pc = "returned", !.result = Sha256Of(hp.input)]
  /\ UNCHANGED <<msgVars, stateVars, node, cli>>

HashNext ==
  \/ \E fn \in {"digest", "compute"}, env \in HashEnvs, input \in HashInputs :
       HCall(fn, env, input)
  \/ HEnter
  \/ HTest
  \/ HSleep
  \/ \E input \in HashInputs : HHash(input)
  \/ HSettle
  \/ HRunJob

\* every step of the thread that can be taken is taken, the digest off the
\* thread finishes, and a callback that may run does run
HashSpec ==
  /\ StateInit
  /\ [][HashNext]_vars
  /\ WF_vars(HEnter) /\ WF_vars(HTest) /\ WF_vars(HSleep)
  /\ WF_vars(HSettle) /\ WF_vars(HRunJob)

-----------------------------------------------------------------------------
(* Node: start() is an async function; node.pc is the await it has reached  *)
(* ("program", "bitcoin", "peer"), the emit after them ("ready"), or how the *)
(* call ended ("resolved", "rejected").  A service's start() resolves or     *)
(* rejects.  node.started lists the services whose start has completed in    *)
(* this call, node.readies counts the 'ready' events the Node has emitted.   *)

NodeSettings == [autorun : BOOLEAN, bitcoin : BOOLEAN, peering : BOOLEAN]

\* if (enabled) await service.start() that goes on after a failed start
NodeAwaitSwallow(n, enabled, service, next, ok) ==
  IF enabled /\ ok THEN [n EXCEPT !.pc = next, !.started = Append(@, service)]
  ELSE [n EXCEPT !.pc = next]

\* if (enabled) await service.start(): the call afterwards; a start that
\* fails rejects the call there
NodeAwait(n, enabled, service, next, ok) ==
  IF ~enabled THEN [n EXCEPT !.pc = next]
  ELSE IF ok THEN [n EXCEPT !.pc = next, !.started = Append(@, service)]
  ELSE [n EXCEPT !.pc = "rejected"]

\* node = new Node(settings), before any call of start()
NConstruct(settings) ==
  /\ node.pc = "idle" /\ node.calls = 0
  /\ node' = [NoNode EXCEPT !.settings = settings]
  /\ UNCHANGED <<msgVars, stateVars, hp, cli>>

\* node.start() up to the first await
NStart ==
  /\ node.pc \in {"idle", "resolved", "rejected"}
  /\ node.calls < MaxCalls
  /\ node' = [node EXCEPT !.pc = "program", !.started = <<>>, !.calls = @ + 1]
  /\ UNCHANGED <<msgVars, stateVars, hp, cli>>

\* the three awaits, one after the other
NAwait(ok) ==
  /\ node.pc \in {"program", "bitcoin", "peer"}
  /\ node' = CASE node.pc = "program" ->
                   NodeAwait(node, node.settings.autorun, "program", "bitcoin", ok)
              [] node.pc = "bitcoin" ->
                   NodeAwait(node, node.settings.bitcoin, "bitcoin", "peer", ok)
              [] node.pc = "peer" ->
                   NodeAwait(node, node.settings.peering, "peer", "ready", ok)
  /\ UNCHANGED <<msgVars, stateVars, hp, cli>>

\* this.emit('ready', ...); return this
NReady ==
  /\ node.pc = "ready"
  /\ node' = [node EXCEPT !.pc = "resolved", !.readies = @ + 1, !.resolved = @ + 1]
  /\ UNCHANGED <<msgVars, stateVars, hp, cli>>

NodeNext ==
  \/ \E settings \in NodeSettings : NConstruct(settings)
  \/ NStart
  \/ \E ok \in BOOLEAN : NAwait(ok)
  \/ NReady

NodeSpec == StateInit /\ [][NodeNext]_vars

-----------------------------------------------------------------------------
(* CLI: get, set and commit over this._state, a tree here since the values *)
(* written are primitives or fresh objects.  cli.mirror is the observer's   *)
(* copy of this._state.content (undefined before start()), cli.errors the   *)
(* number of _appendError calls of the last call, cli.emitted its signals.  *)

RECURSIVE TreePtrGet(_, _)
\* pointer.get(obj, path) on a tree: [ok, v]; throws (ok = FALSE) on a token
\* that is not a key of an object
TreePtrGet(tree, path) ==
  IF path = <<>> THEN [ok |-> TRUE, v |-> tree]
  ELSE IF tree.t = "obj" /\ HasKey(tree.e, Head(path))
  THEN TreePtrGet(EntriesGet(tree.e, Head(path)), Tail(path))
  ELSE [ok |-> FALSE, v |-> Undefined]

RECURSIVE TreePtrSet(_, _, _)
\* pointer.set(obj, path, val) on a tree: [ok, v]; missing intermediate
\* objects are created, the root cannot be set, a primitive on the way
\* makes it throw
TreePtrSet(tree, path, val) ==
  IF path = <<>> \/ tree.t # "obj" THEN [ok |-> FALSE, v |-> tree]
  ELSE IF Len(path) = 1
  THEN [ok |-> TRUE, v |-> Obj(EntriesSet(tree.e, path[1], val))]
  ELSE LET below == IF HasKey(tree.e, path[1])
                    THEN EntriesGet(tree.e, path[1]) ELSE Obj(<<>>)
           r == TreePtrSet(below, Tail(path), val)
       IN IF r.ok
          THEN [ok |-> TRUE, v |-> Obj(EntriesSet(tree.e, path[1], r.v))]
          ELSE [ok |-> FALSE, v |-> tree]

\* the promise an async function returns
Promise == [t |-> "promise", n |-> 0, s |-> "", e |-> <<>>]

\* this._state.content
CliContent(c) == EntriesGet(c.state.e, "content")

\* get(path): the value under this._state.content, or null and an error
\* message when the pointer throws
CliGet(c, path) ==
  LET r == TreePtrGet(CliContent(c), path)
  IN IF r.ok THEN [c EXCEPT !.result = r.v]
     ELSE [c EXCEPT !.result = Null, !.errors = @ + 1]

\* commit(): the clock, the observer's diff of this._state.content, and the
\* three signals when the diff is not empty
CliCommit(c) ==
  LET changes == IF c.mirror.t = "obj"
                 THEN Generate(c.mirror, CliContent(c), <<>>) ELSE <<>>
  IN [c EXCEPT !.clock = @ + 1,
               !.mirror = IF c.mirror.t = "obj" THEN CliContent(c) ELSE @,
               !.emitted = IF changes # <<>>
                           THEN <<Signal("changes", TRUE, changes, Undefined),
                                  Signal("state", FALSE, <<>>, Undefined),
                                  Signal("message", TRUE, changes, Patches(changes))>>
                           ELSE <<>>]

\* set(path, value): the guards, the write below this._state, the commit, and
\* the get that makes the return value
CliSet(c, path, value) ==
  IF path = <<>> \/ ~Truthy(value)
  THEN [c EXCEPT !.result = Promise, !.errors = 1]
  ELSE LET w == TreePtrSet(c.state, path, value)
           written == [c EXCEPT !.state = w.v,
                                !.errors = IF w.ok THEN 0 ELSE 1]
       IN CliGet(CliCommit(written), path)

\* pointers given to get and set: '', /a, /content/a, /content/documents/a,
\* /content/content/a, /contracts/a
CliPaths ==
  {<<>>, <<"a">>, <<"content", "a">>, <<"content", "documents", "a">>,
   <<"content", "content", "a">>, <<"contracts", "a">>}

\* values given to set: 0, 1, 'x'
CliValues == {Num(0), Num(1), Str("x")}

\* start(): of it, the observer of this._state.content
CStart ==
  /\ cli.mirror.t # "obj"
  /\ cli' = [cli EXCEPT !.mirror = CliContent(cli),
                        !.call = Call("start", "s", <<>>, Undefined, <<>>),
                        !.result = Undefined, !.errors = 0, !.emitted = <<>>]
  /\ UNCHANGED <<msgVars, stateVars, hp, node>>

\* cli.get(path)
CGet(path) ==
  /\ cli' = CliGet([cli EXCEPT !.call = Call("get", "s", path, Undefined, <<>>),
                               !.errors = 0, !.emitted = <<>>], path)
  /\ UNCHANGED <<msgVars, stateVars, hp, node>>

\* cli.set(path, value)
CSet(path, value) ==
  /\ cli.clock < MaxClock
  /\ cli' = CliSet([cli EXCEPT !.call = Call("set", "s", path, value, <<>>),
                               !.errors = 0, !.emitted = <<>>], path, value)
  /\ UNCHANGED <<msgVars, stateVars, hp, node>>

CliNext ==
  \/ CStart
  \/ \E path \in CliPaths : CGet(path)
  \/ \E path \in CliPaths, value \in CliValues : CSet(path, value)

CliSpec == StateInit /\ [][CliNext]_vars

-----------------------------------------------------------------------------
(* Construction from data of every shape: two instances are built, each   *)
(* from one of the inputs, and nothing else is called on them.            *)

\* MAX_MESSAGE_SIZE, which state.js takes from ../constants: what is left of
\* 4096 bytes after the header.  The constructor allocates '@allocation'
\* with it and reads it nowhere else.
MAX_MESSAGE_SIZE == 4096 - HEADER_SIZE

RECURSIVE Repeat(_, _)
\* x.repeat(n)
Repeat(x, n) ==
  IF n = 0 THEN ""
  ELSE IF n % 2 = 0 THEN LET half == Repeat(x, n \div 2) IN half \o half
  ELSE x \o Repeat(x, n - 1)

\* data given to new State(): null, strings, arrays, Buffers, plain objects
\* (among them the same fields in two orders, one with a field named with
\* '@', an envelope, an envelope in an envelope, and one that serializes to
\* more than MAX_MESSAGE_SIZE bytes)
ShapeInputs ==
  { Null,
    Str(""), Str("a"), Str("ab"),
    Arr(<<>>), Arr(<<Num(97)>>), Arr(<<Num(97), Num(98)>>),
    Buf(<<97>>), Buf(<<97, 98>>),
    Obj(<<>>), Key("a", Num(1)),
    Obj(<<Entry("a", Num(1)), Entry("b", Num(2))>>),
    Obj(<<Entry("b", Num(2)), Entry("a", Num(1))>>),
    Obj(<<Entry("a", Num(1)), Entry("@meta", Num(2))>>),
    Obj(<<Entry("@type", Str("Custom")), Entry("@data", Key("a", Num(1)))>>),
    Obj(<<Entry("@type", Str("Outer")),
          Entry("@data", Obj(<<Entry("@type", Str("Inner")),
                               Entry("@data", Key("a", Num(1)))>>))>>),
    Key("a", Str(Repeat("a", MAX_MESSAGE_SIZE))) }

\* st[w] = new State(data)
SConstructAs(w, tree) ==
  /\ Finish(NewState(heap, tree).h, [st EXCEPT ![w] = NewState(heap, tree).inst])
  /\ call' = Call("construct", w, <<>>, tree, <<>>)
  /\ result' = Returned(Undefined)
  /\ emitted' = <<>>
  /\ UNCHANGED <<msgVars, otherVars>>

\* values given to serialize(): of the four shapes and of others
SerializeInputs ==
  {Str("a"), Arr(<<Num(97)>>), Buf(<<97>>), Key("a", Num(1)),
   Num(0), Num(1), Bool(TRUE), Custom}

\* st[w].serialize(input)
SSerialize(w, tree) ==
  LET a == Alloc(heap, tree)
      text == serialize(a.h, st[w], a.v)
  IN /\ st[w].exists
     /\ call' = Call("serialize", w, <<>>, tree, <<>>)
     /\ result' = IF text = "throws" THEN Threw ELSE Returned(Str(text))
     /\ emitted' = <<>>
     /\ UNCHANGED <<heap, st, msgVars, otherVars>>

ShapeNext ==
  \/ \E w \in Instances, tree \in ShapeInputs : SConstructAs(w, tree)
  \/ \E w \in Instances, tree \in SerializeInputs : SSerialize(w, tree)

ShapeSpec == StateInit /\ [][ShapeNext]_vars

-----------------------------------------------------------------------------
(* Claims about the message codec *)

Setters == {"setType", "setData", "setSignature", "setSigner"}

\* C1: once sign() has returned, every later attempt to alter a field of the
\* instance through its setters fails and leaves the encoded bytes unchanged.
C1_ImmutableAfterSign ==
  [][(m.frozen /\ op'.name \in Setters)
       => (outcome' # "ok" /\ asRaw(m') = asRaw(m))]_vars

\* the header fields and payload of two instances agree
SameFields(a, b) ==
  /\ a.magic = b.magic /\ a.version = b.version /\ a.parent = b.parent
  /\ a.author = b.author /\ a.type = b.type /\ a.size = b.size
  /\ a.hash = b.hash /\ a.signature = b.signature /\ a.data = b.data

\* C2: round-trip law: for every message built with a registered type and a
\* payload (of any size up to the maximum, the empty one included), asRaw()
\* yields bytes and fromRaw of them has the same header fields and payload.
C2_RoundTrip ==
  (op.name = "construct" /\ types(op.type) # 0)
    => (~m.dataNull /\ SameFields(fromRawMessage(asRaw(m)), m))

\* C3: when the digest of the payload differs from the stored payload hash,
\* verify() ends with the tamper-detected outcome (false) and does not call
\* the verifier, whatever signer is attached.
C3_TamperSkipsVerifier ==
  (op.name = "verify" /\ ~m.dataNull /\ m.hash # Sha256(m.data))
    => (outcome = "false" /\ ~verifierCalled)

C3_Witness ==
  /\ op.name = "verify" /\ ~m.dataNull /\ m.hash # Sha256(m.data)
  /\ m.signer # 0 /\ outcome = "false"

C5_TamperAfterSign ==
  [][/\ (op'.name = "sign" /\ outcome' = "ok" /\ m.hash = Sha256(m.data))
          => VerifyOutcome(m') = "true"
     /\ (/\ m.frozen /\ VerifyOutcome(m) = "true"
         /\ op'.name \in {"setData", "tamper"} /\ m'.data # m.data)
          => VerifyOutcome(m') = "false"]_vars

\* C6: decoding a buffer shorter than the header yields no instance.
C6_ShortInputRejected ==
  (op.name = "decode" /\ wire.has /\ Len(op.value) < HEADER_SIZE)
    => outcome # "ok"

\* C7: decoding a buffer whose declared payload length differs from the
\* number of bytes after the header yields no instance, and the length field
\* of the buffer is not rewritten.
C7_LengthMismatchRejected ==
  (/\ op.name = "decode" /\ wire.has /\ Len(op.value) >= HEADER_SIZE
   /\ BufToNum(Slice(op.value, 76, 80)) # Len(op.value) - HEADER_SIZE)
    => (outcome # "ok" /\ wire.buf = op.value)

-----------------------------------------------------------------------------
(* Claims about the State engine *)

\* C8: whatever calls were made, the id of a State is the SHA-256 digest of
\* the serialization of its current data: the data that overlay and
\* _applyChanges write (this['@data']) and that get reads (the entity data)
\* are the same data, and the id is its digest.
C8_IdentifierOfCurrentData ==
  \A w \in Instances :
    st[w].exists =>
      /\ ReadTree(heap, st[w].entity) = ReadTree(heap, st[w].data)
      /\ fingerprint(heap, st[w]) = Sha256Hex(serialize(heap, st[w], st[w].data))

Committers == {"set", "commit", "render", "applyChanges"}

Other(w) == IF w = "s" THEN "f" ELSE "s"

ChangesSignals(signals) ==
  {i \in 1..Len(signals) : signals[i].name = "changes"}

\* C10: when path p exists and holds a value other than v, then after
\* set(p, v) get(p) returns v, the clock is one higher, and exactly one
\* 'changes' signal was emitted, whose diff has a replace operation with path
\* p and value v.  (Stated for the values a diff reports whole: the old value
\* and v are not both objects.)
C10_SetReplaces ==
  [][(/\ call'.name = "set"
      /\ PtrGet(heap, st[call'.on].entity, call'.path).ok
      /\ ReadTree(heap, PtrGet(heap, st[call'.on].entity, call'.path).v) # call'.value
      /\ ~(/\ PtrGet(heap, st[call'.on].entity, call'.path).v.t = "ref"
           /\ call'.value.t = "obj"))
     => /\ ~result'.threw
        /\ GetResult(heap', st'[call'.on], call'.path) = Returned(call'.value)
        /\ st'[call'.on].clock = st[call'.on].clock + 1
        /\ Cardinality(ChangesSignals(emitted')) = 1
        /\ \A i \in ChangesSignals(emitted') :
             \E j \in 1..Len(emitted'[i].changes) :
               emitted'[i].changes[j] = Patch("replace", call'.path, call'.value)]_vars

\* C11: a commit() that directly follows a commit of the same instance (no
\* mutation in between) still raises the clock by one and emits none of the
\* three signals; and signals are emitted only by a commit whose diff is not
\* empty.
C11_EmptyCommitIsSilent ==
  [][/\ (/\ call.name \in Committers
         /\ ~result.threw
         /\ call'.name = "commit"
         /\ call'.on = call.on)
        => /\ st'[call'.on].clock = st[call'.on].clock + 1
           /\ emitted' = <<>>
     /\ emitted' # <<>>
        => /\ call'.name \in Committers
           /\ ~result'.threw
           /\ st'[call'.on].changes # <<>>]_vars

\* the fork was written to and then committed again at once: the second commit
\* found an empty diff
C11_Witness ==
  /\ call.name = "commit"
  /\ call.on = "f"
  /\ st.f.clock = 2
  /\ st.f.changes = <<>>
  /\ emitted = <<>>

\* a successful call of commit(), direct or not, whose diff is not empty
NonEmptyCommit ==
  /\ call'.name \in Committers
  /\ ~result'.threw
  /\ st'[call'.on].changes # <<>>

\* C12: a commit with a non-empty diff emits exactly three signals, 'changes',
\* then 'state', then 'message', and the baseline of the next diff (the
\* observer's mirror) is the data as of this commit.
C12_ThreeSignalsInOrder ==
  [][NonEmptyCommit
     => /\ Len(emitted') = 3
        /\ emitted'[1].name = "changes"
        /\ emitted'[2].name = "state"
        /\ emitted'[3].name = "message"
        /\ st'[call'.on].mirror = ReadTree(heap', st'[call'.on].entity)]_vars

\* _applyChanges removed a key and its commit reported it
C12_Witness ==
  /\ call.name = "applyChanges"
  /\ ~result.threw
  /\ Len(emitted) = 3
  /\ emitted[1].changes = <<Patch("remove", <<"a">>, Undefined)>>
  /\ st.s.mirror = Obj(<<>>)

\* C13: on a commit with a non-empty diff the payload of 'state' is the
\* snapshot of the data after the mutation, and 'message' carries the diff as
\* 'changes' and that same snapshot as 'state'.
C13_SignalsCarrySnapshot ==
  [][NonEmptyCommit
     => /\ emitted'[2].defined
        /\ emitted'[2].state = ReadTree(heap', st'[call'.on].entity)
        /\ emitted'[3].changes = st'[call'.on].changes
        /\ emitted'[3].state = ReadTree(heap', st'[call'.on].entity)]_vars

\* C14: after f = s.fork(), f.get('/parent') returns the id s had
\* immediately before the call.
C14_ForkLineage ==
  [][call'.name = "fork"
     => GetResult(heap', st'.f, <<"parent">>) = Returned(Str(fingerprint(heap, st.s)))]_vars

\* what a caller can observe of an instance: its data, what get returns, its
\* id, clock, parent and pending changes
Observed(h, inst) ==
  [data |-> ReadTree(h, inst.data),
   gets |-> [p \in Paths |-> GetResult(h, inst, p)],
   id |-> fingerprint(h, inst),
   clock |-> inst.clock,
   parent |-> inst.parent,
   changes |-> inst.changes]

\* C15: fork() leaves the original as it was, and afterwards a set on the fork
\* changes nothing that can be observed of the original, nor a set on the
\* original anything of the fork.
C15_ForkIndependent ==
  [][/\ call'.name = "fork" => Observed(heap', st'.s) = Observed(heap, st.s)
     /\ (call'.name = "set" /\ st[Other(call'.on)].exists)
        => Observed(heap', st'[Other(call'.on)]) = Observed(heap, st[Other(call'.on)])]_vars

\* C16: overlay(other) returns an instance other than the receiver and leaves
\* the receiver's data, id, parent and clock as they were.
C16_OverlayLeavesReceiver ==
  [][call'.name = "overlay"
     => /\ result'.v # This(call'.on)
        /\ ReadTree(heap', st'[call'.on].data) = ReadTree(heap, st[call'.on].data)
        /\ fingerprint(heap', st'[call'.on]) = fingerprint(heap, st[call'.on])
        /\ st'[call'.on].id = st[call'.on].id
        /\ st'[call'.on].parent = st[call'.on].parent
        /\ st'[call'.on].clock = st[call'.on].clock]_vars

\* the union of the fields of two objects, the second winning
Merged(mine, other) == Obj(Assign(mine.e, other.e))

\* C17: the State that results from overlay(other) has the union of both
\* field sets with other's values winning, get returns other's value for each
\* field of other, its parent is the id the receiver had immediately before,
\* and its id and did:fabric:<id> are those of the merged data.
C17_OverlayResult ==
  [][call'.name = "overlay"
     => LET merged == Merged(ReadTree(heap, st[call'.on].data), call'.value)
        IN /\ ReadTree(heap', st'[call'.on].data) = merged
           /\ \A i \in 1..Len(call'.value.e) :
                GetResult(heap', st'[call'.on], <<call'.value.e[i].k>>)
                  = Returned(call'.value.e[i].v)
           /\ st'[call'.on].parent = fingerprint(heap, st[call'.on])
           /\ st'[call'.on].id = Sha256Hex(Json(merged))
           /\ st'[call'.on].did = "did:fabric:" \o Sha256Hex(Json(merged))]_vars

\* C18: after a set or an _applyChanges that changed the content and
\* committed, the parent of the State is the id it had before that mutation,
\* not the id of the data just committed.
C18_ParentIsPriorVersion ==
  [][(/\ call'.name \in {"set", "applyChanges"}
      /\ ~result'.threw
      /\ fingerprint(heap', st'[call'.on]) # fingerprint(heap, st[call'.on]))
     => /\ st'[call'.on].parent = fingerprint(heap, st[call'.on])
        /\ st'[call'.on].parent # fingerprint(heap', st'[call'.on])]_vars

\* C19: get(path) never throws; for a path that does not resolve in the
\* current data it returns null (here: no value).
C19_GetNeverThrows ==
  [][call'.name = "get"
     => /\ ~result'.threw
        /\ ~PtrGet(heap, st[call'.on].entity, call'.path).ok
             => result' = Returned(Undefined)]_vars

\* C20: set(path, value) is atomic: when it throws, the data get reads, the
\* object state.value, the clock, the parent and the id are as before the call
\* and no signal was emitted; when it returns, the value was written and
\* exactly one commit happened.
C20_SetAtomic ==
  [][call'.name = "set"
     => IF result'.threw
        THEN /\ Observed(heap', st'[call'.on]) = Observed(heap, st[call'.on])
             /\ ReadTree(heap', st'[call'.on].value) = ReadTree(heap, st[call'.on].value)
             /\ st'[call'.on].id = st[call'.on].id
             /\ emitted' = <<>>
        ELSE /\ GetResult(heap', st'[call'.on], call'.path) = Returned(call'.value)
             /\ st'[call'.on].clock = st[call'.on].clock + 1]_vars

-----------------------------------------------------------------------------
(* Further claims about the message codec *)

C22_PayloadDigest ==
  (op.name \in {"construct", "setData"} /\ ~m.dataNull)
    => Slice(asRaw(m), 80, 112) = Sha256(Slice(asRaw(m), HEADER_SIZE, Len(asRaw(m))))

\* C23: for every instance, constructed, re-assigned, signed or decoded from
\* any input buffer, the header getter returns exactly 176 bytes: magic(4)
\* version(4) parent(32) author(32) type(4) size(4) hash(32) signature(64).
C23_HeaderSize ==
  /\ Len(header(m)) = HEADER_SIZE
  /\ Len(m.magic) = 4 /\ Len(m.version) = 4
  /\ Len(m.parent) = 32 /\ Len(m.author) = 32
  /\ Len(m.type) = 4 /\ Len(m.size) = 4
  /\ Len(m.hash) = 32 /\ Len(m.signature) = 64

\* the code the registry holds for a name, the GenericMessage code for a
\* name it does not hold
ExpectedCode(name) ==
  IF types(name) = 0 THEN GENERIC_MESSAGE_TYPE ELSE types(name)

InRegistry(code) == \E name \in TypeNames : types(name) = code

C26_SignFrame ==
  [][op'.name = "sign" =>
       IF m.dataNull \/ m.signer = 0
       THEN outcome' # "ok" /\ m' = m /\ ~m'.frozen
       ELSE /\ outcome' = "ok"
            /\ m'.author = signerPubkey(m.signer)
            /\ m'.signature = signerSign(m.signer, Sha256(m.data))
            /\ m'.magic = m.magic /\ m'.version = m.version
            /\ m'.parent = m.parent /\ m'.type = m.type
            /\ m'.size = m.size /\ m'.hash = m.hash
            /\ m'.data = m.data]_vars

-----------------------------------------------------------------------------
(* Claims about construction and fingerprints over the data shapes *)

\* C27: no State whose size is greater than MAX_MESSAGE_SIZE is ever
\* created: constructing from data that serializes to more than
\* MAX_MESSAGE_SIZE bytes throws.
C27_SizeBounded ==
  [][call'.name = "construct" =>
       size(heap', st'[call'.on]) <= MAX_MESSAGE_SIZE]_vars

RECURSIVE StripSpecial(_)
\* the fields of an object without those named with a leading '@'
StripSpecial(entries) ==
  IF entries = <<>> THEN <<>>
  ELSE IF SubSeq(Head(entries).k, 1, 1) = "@" THEN StripSpecial(Tail(entries))
  ELSE <<Head(entries)>> \o StripSpecial(Tail(entries))

\* an instance that exists and holds a plain object
HoldsObject(w) ==
  st[w].exists /\ st[w].type = "Object" /\ st[w].entity.t = "ref"

\* C28: fields named with a leading '@' do not enter the canonical form:
\* two States holding objects with the same fields other than those have
\* the same serialization and the same id.
C28_SpecialFieldsExcluded ==
  (/\ HoldsObject("s") /\ HoldsObject("f")
   /\ StripSpecial(ReadTree(heap, st.s.entity).e)
        = StripSpecial(ReadTree(heap, st.f.entity).e))
    => /\ serialize(heap, st.s, st.s.entity) = serialize(heap, st.f, st.f.entity)
       /\ fingerprint(heap, st.s) = fingerprint(heap, st.f)

\* the fields of an object as a set: names with their values, in no order
Fields(entries) == {entries[i] : i \in 1..Len(entries)}

\* C29: the id of structured data does not depend on the order of its
\* fields: two States holding objects with the same fields and values,
\* inserted in whatever order, have the same id.
C29_FieldOrderIndependent ==
  (/\ HoldsObject("s") /\ HoldsObject("f")
   /\ Fields(ReadTree(heap, st.s.entity).e) = Fields(ReadTree(heap, st.f.entity).e))
    => fingerprint(heap, st.s) = fingerprint(heap, st.f)

\* the data an instance was constructed from, read off the instance as the
\* constructor leaves it: this['@data'] unless the data was falsy, and then
\* the entity's '@data', which holds it as given
Given(h, inst) ==
  IF Truthy(inst.entity) THEN ReadTree(h, inst.data) ELSE inst.entity

\* C30: ids separate the inputs: two States constructed from different data
\* have different ids, and two States constructed from equal data have
\* equal ids.
C30_FingerprintSeparates ==
  (st.s.exists /\ st.f.exists) =>
    (Given(heap, st.s) = Given(heap, st.f)
       <=> fingerprint(heap, st.s) = fingerprint(heap, st.f))

-----------------------------------------------------------------------------
(* Further claims about the State engine *)

\* C31: the pending change list is empty outside a dirty window: right
\* after construction and right after every call that commits, '@changes'
\* of the instance holds no patch operation.
C31_ChangesCleared ==
  [][(call'.name \in Committers \cup {"construct"} /\ ~result'.threw) =>
       st'[call'.on].changes = <<>>]_vars

-----------------------------------------------------------------------------
(* Claims about Hash256 *)

\* C32: every call of Hash256.digest or Hash256.compute with a string or a
\* Buffer returns, and returns the digest of its input, in a browser as
\* outside of one.
C32_DigestTerminates ==
  (hp.pc = "called" /\ Digestible(hp.input))
    ~> (hp.pc = "returned" /\ hp.result = Sha256Of(hp.input))

-----------------------------------------------------------------------------
(* Further claims about serialization and construction *)

\* a value of one of the four shapes: text, sequence, byte buffer, object
Supported(v) == v.t \in {"str", "arr", "buf", "obj"}

\* C33: serializing a value that is of none of the four shapes fails with an
\* error; nothing is returned for it.
C33_UnsupportedShapeFails ==
  [][(call'.name = "serialize" /\ ~Supported(call'.value)) => result'.threw]_vars

RECURSIVE Innermost(_, _)
\* the innermost envelope of an envelope v
Innermost(h, v) ==
  IF IsEnvelope(h, EntriesGet(h[v.n], "@data"))
  THEN Innermost(h, EntriesGet(h[v.n], "@data"))
  ELSE v

\* C34: a State constructed from an envelope has the type tag and the data
\* of the innermost envelope, however deep the envelopes are nested: its
\* type is never the tag of a wrapper around another envelope and its data
\* is never an envelope.
C34_EnvelopeUnwrapped ==
  \A w \in Instances :
    (st[w].exists /\ IsEnvelope(heap, st[w].data)) =>
      /\ st[w].type = EntriesGet(heap[Innermost(heap, st[w].data).n], "@type").s
      /\ st[w].entity = EntriesGet(heap[Innermost(heap, st[w].data).n], "@data")
      /\ ~IsEnvelope(heap, st[w].entity)

-----------------------------------------------------------------------------
(* Further claims about decoding *)

\* C35: a payload changed on the wire is detected after decode: the decoded
\* message keeps the payload hash and length fields that were on the wire,
\* and its verify() reports the tamper-detected outcome without calling the
\* verifier.
C35_WireTamperDetected ==
  [][(/\ op'.name = "decode"
      \* the buffer in transit is what the sender encoded but for payload bytes
      /\ InFlight /\ ~m.dataNull
      /\ Len(wire.buf) = Len(asRaw(m))
      /\ Slice(wire.buf, 0, HEADER_SIZE) = Slice(asRaw(m), 0, HEADER_SIZE)
      /\ wire.buf # asRaw(m)) =>
       /\ m'.hash = Slice(wire.buf, 80, 112)
       /\ m'.size = Slice(wire.buf, 76, 80)
       /\ VerifyOutcome(m') = "false"
       /\ ~VerifyCallsVerifier(m')]_vars

\* C36: the type label makes the round trip: after a name of the registry
\* is assigned as type, reading type returns that name, and decoding the
\* encoded message returns a message that reads the same type.
C36_TypeRoundTrip ==
  [][/\ (op'.name = "setType" /\ outcome' = "ok" /\ op'.type \in TypeNames)
          => typeGet(m') = op'.type
     /\ (op'.name = "decode" /\ InFlight /\ ~wire.altered)
          => typeGet(m') = typeGet(m)]_vars

-----------------------------------------------------------------------------
(* Further claims about set and get *)

-----------------------------------------------------------------------------
(* Further claims about the codec's input *)

\* C38: Message.fromRaw does not modify its input: every byte of the
\* caller's buffer is the same after the call as before.
C38_DecodeLeavesInput ==
  [][op'.name = "decode" => wire'.buf = wire.buf]_vars

-----------------------------------------------------------------------------
(* Claims about Node *)

\* the services settings enable, in the order program, bitcoin, peer node
EnabledServices(settings) ==
  (IF settings.autorun THEN <<"program">> ELSE <<>>)
    \o (IF settings.bitcoin THEN <<"bitcoin">> ELSE <<>>)
    \o (IF settings.peering THEN <<"peer">> ELSE <<>>)

\* C39: Node.start() emits 'ready' exactly once per call that completes, and
\* only after the start of every enabled service has completed, in the order
\* program, bitcoin, peer node; a call in which a start fails emits no
\* 'ready'.
C39_ReadyAfterServices ==
  [][/\ node'.readies # node.readies =>
          /\ node'.readies = node.readies + 1
          /\ node'.pc = "resolved"
          /\ node.started = EnabledServices(node.settings)
     /\ (node'.pc = "resolved" /\ node.pc # "resolved") =>
          node'.readies = node.readies + 1
     /\ node'.readies = node'.resolved
     /\ node'.pc = "rejected" => node'.readies = node.readies]_vars

\* a call with three services enabled has emitted 'ready' after a call that
\* was rejected
C39_Witness ==
  /\ node.pc = "resolved" /\ node.readies = 1 /\ node.calls = 2
  /\ node.started = <<"program", "bitcoin", "peer">>

\* C40: after cli.set(path, value) with a non-empty path and a truthy value
\* on a started CLI, the call has returned that value, get(path) returns it,
\* and the commit has emitted a 'changes' signal with a patch that carries it.
C40_SetGetAgree ==
  (/\ cli.call.name = "set" /\ cli.mirror.t = "obj"
   /\ cli.call.path # <<>> /\ Truthy(cli.call.value)) =>
     /\ cli.result = cli.call.value
     /\ CliGet(cli, cli.call.path).result = cli.call.value
     /\ \E i \in 1..Len(cli.emitted) :
          /\ cli.emitted[i].name = "changes"
          /\ \E j \in 1..Len(cli.emitted[i].changes) :
               cli.emitted[i].changes[j].value = cli.call.value

====
